---- MODULE Spec2Model ----
(***************************************************************************)
(* DirectorySync (directory_sync.py): one-way synchronisation of a         *)
(* destination directory tree with a source directory tree.                *)
(*                                                                         *)
(* The filesystem is one function from absolute paths (sequences of path   *)
(* components) to entries.  The program's state is the parsed command      *)
(* line, the position in the script (pc), the worklist update_list, the    *)
(* current directory pair and the INFORM_USER flag.  History variables     *)
(* (ops, visited, queued, fs0, run, prompts, failures, clean) record what  *)
(* a run did.                                                              *)
(***************************************************************************)
EXTENDS Integers, Sequences, FiniteSets, TLC

VARIABLES
    fs,                 \* the filesystem: absolute path -> entry
    SOURCE_PATH,        \* args.source
    DEST_PATH,          \* args.dest
    MERGE,              \* args.merge
    SKIP_CONFIRMATION,  \* args.skip_confirmation
    pc,                 \* position in the __main__ script
    confirmed,          \* the user has confirmed the direction
    user_input,         \* the last answer typed at the prompt, lower-cased ("" before any)
    update_list,        \* worklist of source directories
    iter_src,           \* source directory of the next dir_comp call
    iter_dest,          \* destination directory of the next dir_comp call
    INFORM_USER,        \* run-wide error flag
    ops,                \* history: filesystem operations of the current run
    visited,            \* history: source directories handed to dir_comp, in order
    queued,             \* history: source directories ever inserted in update_list
    fs0,                \* history: the filesystem when the current run started
    run,                \* history: number of the current run
    prompts,            \* history: confirmation prompts shown
    failures,           \* history: failures injected into the filesystem operations
    clean               \* history: every earlier run ended with the error flag unset

vars == <<fs, SOURCE_PATH, DEST_PATH, MERGE, SKIP_CONFIRMATION, pc, confirmed, user_input, update_list,
          iter_src, iter_dest, INFORM_USER, ops, visited, queued, fs0, run, prompts,
          failures, clean>>

----------------------------------------------------------------------------
(* Bounds *)

MaxDepth == 2        \* depth of the trees below the two roots
MaxEntries == 3      \* entries in the two trees together, when files are among them
MaxDirs == 6         \* entries in the two trees together, when all are directories
MaxFailures == 1     \* operations of one run that fail for a reason outside the program
MaxRuns == 2         \* successive runs of the program
MaxPrompts == 2      \* confirmation prompts in one run

Names == {"a", "b"}               \* entry names inside the trees
RootNames == {"r", "r.a", "q"}    \* names of the directories given on the command line

\* st_size and st_mtime_ns that stat() reports for a directory
DirSize == 1
DirTime == 1

----------------------------------------------------------------------------
(* Filesystem entries and paths *)

File(s, t) == [type |-> "file", size |-> s, mtime |-> t]
Dir == [type |-> "dir", size |-> DirSize, mtime |-> DirTime]
\* the stats of the regular files: enough for two files to have equal or
\* different sizes with the first one older than, as old as or newer than the second
Files == {File(1, 1), File(1, 2), File(2, 1)}

EmptyTree == [p \in {} |-> Dir]

IsPrefix(p, q) == Len(p) <= Len(q) /\ SubSeq(q, 1, Len(p)) = p
IsProperPrefix(p, q) == Len(p) < Len(q) /\ SubSeq(q, 1, Len(p)) = p
Suffix(p, q) == SubSeq(q, Len(p) + 1, Len(q))

\* Path.exists / Path.is_dir / Path.is_file
Exists(f, p) == p \in DOMAIN f
IsDirIn(f, p) == p \in DOMAIN f /\ f[p].type = "dir"
IsFileIn(f, p) == p \in DOMAIN f /\ f[p].type = "file"

\* {item.name for item in dir.iterdir()}
ListNames(f, d) == {p[Len(p)] : p \in {q \in DOMAIN f : Len(q) = Len(d) + 1 /\ IsPrefix(d, q)}}

\* the strict descendants of p
Below(f, p) == {q \in DOMAIN f : IsProperPrefix(p, q)}

\* f with the keys in D removed
Without(f, D) == [p \in DOMAIN f \ D |-> f[p]]

\* the tree t (relative paths) placed below the directory at
GraftAt(at, t) == [p \in {at \o q : q \in DOMAIN t} |-> t[Suffix(at, p)]]

\* the relative tree below the directory at
TreeAt(f, at) == [q \in {Suffix(at, p) : p \in Below(f, at)} |-> f[at \o q]]

----------------------------------------------------------------------------
(* The bounded set of trees the initial states draw from *)

\* the trees of depth at most d with at most n entries, their top-level names
\* taken from names and their regular files from files
RECURSIVE Forest(_, _, _, _)
Forest(names, d, n, files) ==
    IF names = {} \/ n = 0 THEN {EmptyTree}
    ELSE LET x == CHOOSE y \in names : TRUE
             rest == names \ {x}
             subs == IF d > 1 THEN Forest(Names, d - 1, n - 1, files) ELSE {EmptyTree}
         IN  Forest(rest, d, n, files)
             \cup {(<<x>> :> e) @@ r : e \in files, r \in Forest(rest, d, n - 1, files)}
             \cup UNION {{(<<x>> :> Dir) @@ GraftAt(<<x>>, s) @@ r :
                            r \in Forest(rest, d, n - 1 - Cardinality(DOMAIN s), files)} :
                         s \in subs}

\* the pairs of trees with at most n entries together
PairsUpTo(n, files) ==
    LET upTo == [k \in 0..n |-> Forest(Names, MaxDepth, k, files)]
    IN  UNION {{<<t1, t2>> : t2 \in upTo[n - Cardinality(DOMAIN t1)]} : t1 \in upTo[n]}

\* the pairs of trees that both hold the directory a, with at most n entries
\* together inside the two directories
NestedPairs(n, files) ==
    LET upTo == [k \in 0..n |-> Forest(Names, MaxDepth - 1, k, files)]
        under(t) == (<<"a">> :> Dir) @@ GraftAt(<<"a">>, t)
    IN  UNION {{<<under(t1), under(t2)>> : t2 \in upTo[n - Cardinality(DOMAIN t1)]} :
                 t1 \in upTo[n]}

TreePairs ==
    PairsUpTo(MaxEntries, Files) \cup PairsUpTo(MaxDirs, {}) \cup NestedPairs(MaxEntries - 1, Files)
\* the pairs of trees that hold at most the entry a
SmallTreePairs ==
    LET small == Forest({"a"}, 1, 1, Files) IN small \X small

----------------------------------------------------------------------------
(* Path arithmetic: resolve(), stem, relpath *)

\* the characters of the names used as final path components
NameChars ==
    ("r" :> <<"r">>) @@ ("r.a" :> <<"r", ".", "a">>) @@ ("q" :> <<"q">>) @@
    ("a" :> <<"a">>) @@ ("b" :> <<"b">>) @@ ("s" :> <<"s">>) @@ ("d" :> <<"d">>)

\* str.rfind('.') as a 1-based index, 0 when there is no dot
RFindDot(cs) ==
    LET I == {i \in 1..Len(cs) : cs[i] = "."}
    IN  IF I = {} THEN 0 ELSE CHOOSE i \in I : \A j \in I : j <= i

\* PurePath.stem of a name given by its characters
StemChars(cs) ==
    LET i == RFindDot(cs)
    IN  IF 1 < i /\ i < Len(cs) THEN SubSeq(cs, 1, i - 1) ELSE cs

\* Path.stem: the stem of the final component
Stem(p) == StemChars(NameChars[p[Len(p)]])

\* Path.resolve() of an absolute path without symbolic links
RECURSIVE Resolve(_)
Resolve(p) ==
    IF p = <<>> THEN <<>>
    ELSE LET front == Resolve(SubSeq(p, 1, Len(p) - 1))
             last == p[Len(p)]
         IN  IF last = "." THEN front
             ELSE IF last = ".." THEN (IF front = <<>> THEN <<>> ELSE SubSeq(front, 1, Len(front) - 1))
             ELSE Append(front, last)

\* os.path.relpath(p, start=start)
RECURSIVE CommonLen(_, _)
CommonLen(p, q) ==
    IF p = <<>> \/ q = <<>> \/ Head(p) # Head(q) THEN 0
    ELSE 1 + CommonLen(Tail(p), Tail(q))

RelPath(p, start) ==
    LET c == CommonLen(p, start)
    IN  [i \in 1..(Len(start) - c) |-> ".."] \o SubSeq(p, c + 1, Len(p))

\* str.lower() of the answers a user types at the prompt
Answers == {"y", "Y", "n", "N", "x"}
Lower(a) == IF a = "Y" THEN "y" ELSE IF a = "N" THEN "n" ELSE a

\* src and dest of __main__
src == Resolve(SOURCE_PATH)
dest == Resolve(DEST_PATH)

----------------------------------------------------------------------------
(* The filesystem operations dir_comp uses (pathlib, shutil) *)

Outcomes == {"ok", "perm", "io"}

\* one more record in the history of operations
AddOp(o, kind, path, target, res) ==
    o \cup {[op |-> kind, path |-> path, target |-> target, res |-> res,
             n |-> 1 + Cardinality({x \in o : x.op = kind /\ x.target = target})]}

Raise(st, kind, path, target, res) ==
    [st EXCEPT !.raised = TRUE, !.ops = AddOp(st.ops, kind, path, target, res)]

\* the part of the subtree below path that a failing rmtree had removed
RemovedPart(f, path, K) == {q \in Below(f, path) : \E k \in K : IsPrefix(k, q)}

\* the part of the subtree below path that a failing copytree had copied
CopiedPart(f, path, K) ==
    {q \in Below(f, path) : \A i \in (Len(path) + 1)..Len(q) : SubSeq(q, 1, i) \in K}

\* shutil.rmtree(path), with outcome o
RmTree(st, path, o, K) ==
    LET f == st.fs
        part == Without(f, RemovedPart(f, path, K))
    IN  CASE o = "ok" ->
               [st EXCEPT !.fs = Without(f, {path} \cup Below(f, path)),
                          !.ops = AddOp(st.ops, "rmtree", path, path, "ok")]
          [] o = "perm" ->
               [st EXCEPT !.fs = part, !.error_found = TRUE,
                          !.ops = AddOp(st.ops, "rmtree", path, path, "perm")]
          [] OTHER ->
               [Raise(st, "rmtree", path, path, "io") EXCEPT !.fs = part]

\* unlink whose permission error is logged and not flagged
Unlink_Silent(st, path, o) ==
    CASE ~Exists(st.fs, path) -> Raise(st, "unlink", path, path, "io")
      [] o = "ok" ->
           [st EXCEPT !.fs = Without(st.fs, {path}),
                      !.ops = AddOp(st.ops, "unlink", path, path, "ok")]
      [] o = "perm" ->
           [st EXCEPT !.ops = AddOp(st.ops, "unlink", path, path, "perm")]
      [] OTHER -> Raise(st, "unlink", path, path, "io")

\* path.unlink(), with outcome o
Unlink(st, path, o) ==
    CASE ~Exists(st.fs, path) -> Raise(st, "unlink", path, path, "io")
      [] o = "ok" ->
           [st EXCEPT !.fs = Without(st.fs, {path}),
                      !.ops = AddOp(st.ops, "unlink", path, path, "ok")]
      [] o = "perm" ->
           [st EXCEPT !.error_found = TRUE,
                      !.ops = AddOp(st.ops, "unlink", path, path, "perm")]
      [] OTHER -> Raise(st, "unlink", path, path, "io")

\* copytree that creates the directory and leaves its content out
CopyTree_Shallow(st, path, to, o, K) ==
    CASE Exists(st.fs, to) -> Raise(st, "copytree", to, to, "io")
      [] o = "ok" ->
           [st EXCEPT !.fs = (to :> st.fs[path]) @@ st.fs,
                      !.ops = AddOp(st.ops, "copytree", to, to, "ok")]
      [] o = "perm" ->
           [st EXCEPT !.error_found = TRUE,
                      !.ops = AddOp(st.ops, "copytree", to, to, "perm")]
      [] OTHER -> [Raise(st, "copytree", to, to, "io") EXCEPT !.fs = (to :> st.fs[path]) @@ st.fs]

\* shutil.copytree(path, to), with outcome o
CopyTree(st, path, to, o, K) ==
    LET f == st.fs
        whole == (to :> f[path]) @@ GraftAt(to, TreeAt(f, path))
        copied == CopiedPart(f, path, K)
        part == (to :> f[path]) @@ [p \in {to \o Suffix(path, q) : q \in copied} |->
                                       f[path \o Suffix(to, p)]]
    IN  CASE Exists(f, to) -> Raise(st, "copytree", to, to, "io")
          [] o = "ok" ->
               [st EXCEPT !.fs = whole @@ f,
                          !.ops = AddOp(st.ops, "copytree", to, to, "ok")]
          [] o = "perm" ->
               [st EXCEPT !.error_found = TRUE,
                          !.ops = AddOp(st.ops, "copytree", to, to, "perm")]
          [] OTHER ->
               [Raise(st, "copytree", to, to, "io") EXCEPT !.fs = part @@ f]

\* copy2 whose permission error is not handled by the caller
Copy2_Uncaught(st, from, to, o) ==
    LET f == st.fs
        target == IF IsDirIn(f, to) THEN Append(to, from[Len(from)]) ELSE to
    IN  CASE ~IsFileIn(f, from) -> Raise(st, "copy2", to, target, "io")
          [] IsDirIn(f, target) -> Raise(st, "copy2", to, target, "io")
          [] o = "ok" ->
               [st EXCEPT !.fs = (target :> f[from]) @@ f,
                          !.ops = AddOp(st.ops, "copy2", to, target, "ok")]
          [] OTHER -> Raise(st, "copy2", to, target, o)

\* copy2 attempted a second time after a permission error
Copy2_Retry(st, from, to, o) ==
    LET f == st.fs
        target == IF IsDirIn(f, to) THEN Append(to, from[Len(from)]) ELSE to
    IN  CASE ~IsFileIn(f, from) -> Raise(st, "copy2", to, target, "io")
          [] IsDirIn(f, target) -> Raise(st, "copy2", to, target, "io")
          [] o = "ok" ->
               [st EXCEPT !.fs = (target :> f[from]) @@ f,
                          !.ops = AddOp(st.ops, "copy2", to, target, "ok")]
          [] o = "perm" ->
               [st EXCEPT !.error_found = TRUE,
                          !.ops = AddOp(AddOp(st.ops, "copy2", to, target, "perm"),
                                        "copy2", to, target, "perm")]
          [] OTHER -> Raise(st, "copy2", to, target, "io")

\* shutil.copy2(from, to), with outcome o
Copy2(st, from, to, o) ==
    LET f == st.fs
        target == IF IsDirIn(f, to) THEN Append(to, from[Len(from)]) ELSE to
    IN  CASE ~IsFileIn(f, from) -> Raise(st, "copy2", to, target, "io")
          [] IsDirIn(f, target) -> Raise(st, "copy2", to, target, "io")
          [] o = "ok" ->
               [st EXCEPT !.fs = (target :> f[from]) @@ f,
                          !.ops = AddOp(st.ops, "copy2", to, target, "ok")]
          [] o = "perm" ->
               [st EXCEPT !.error_found = TRUE,
                          !.ops = AddOp(st.ops, "copy2", to, target, "perm")]
          [] OTHER -> Raise(st, "copy2", to, target, "io")

----------------------------------------------------------------------------
(* dir_comp: reconcile one directory pair *)

\* the orders in which a loop over a set of names can visit them
Orders(N) == {o \in [1..Cardinality(N) -> N] : \A i, j \in DOMAIN o : o[i] = o[j] => i = j}

Restrict(order, S) == SelectSeq(order, LAMBDA x : x \in S)

\* list.remove(x): drop the first occurrence of x
RECURSIVE Remove(_, _)
Remove(list, x) ==
    IF list = <<>> THEN <<>>
    ELSE IF Head(list) = x THEN Tail(list)
    ELSE <<Head(list)>> \o Remove(Tail(list), x)

\* lines 152-164: one pass of the loop over dest_unique
DeleteItem(st, destdir, item, o, K) ==
    LET path == Append(destdir, item)
    IN  IF IsDirIn(st.fs, path) THEN RmTree(st, path, o, K) ELSE Unlink(st, path, o)

\* lines 167-180: one pass of the loop over src_unique
CopyItem(st, srcdir, destdir, item, o, K) ==
    LET path == Append(srcdir, item)
    IN  IF IsDirIn(st.fs, path)
        THEN CopyTree(st, path, Append(destdir, item), o, K)
        ELSE Copy2(st, path, Append(destdir, item), o)

\* the criterion without the comparison of the modification times
NeedsCopy_SizeOnly(src_item_stats, dest_item_stats) ==
    src_item_stats.size # dest_item_stats.size

\* the criterion with a source that is as old as the destination counted as newer
NeedsCopy_NotOlder(src_item_stats, dest_item_stats) ==
    \/ src_item_stats.size # dest_item_stats.size
    \/ src_item_stats.mtime >= dest_item_stats.mtime

\* lines 193-196: the change criterion for a shared file
NeedsCopy(src_item_stats, dest_item_stats) ==
    \/ src_item_stats.size # dest_item_stats.size
    \/ src_item_stats.mtime > dest_item_stats.mtime

\* the loop over shared_items handling the files and leaving the directories out
SharedItem_FilesOnly(st, srcdir, destdir, item, o) ==
    LET src_path == Append(srcdir, item)
        dest_path == Append(destdir, item)
        f == st.fs
    IN  CASE ~Exists(f, src_path) -> Raise(st, "stat", src_path, src_path, "io")
          [] ~Exists(f, dest_path) -> Raise(st, "stat", dest_path, dest_path, "io")
          [] o = "stat" -> Raise(st, "stat", dest_path, dest_path, "perm")
          [] IsFileIn(f, src_path) ->
               IF NeedsCopy(f[src_path], f[dest_path])
               THEN Copy2(st, src_path, dest_path, o)
               ELSE st
          [] OTHER -> st

\* the loop over shared_items putting a shared directory at the end of the list
SharedItem_Append(st, srcdir, destdir, item, o) ==
    LET src_path == Append(srcdir, item)
        dest_path == Append(destdir, item)
        f == st.fs
    IN  CASE ~Exists(f, src_path) -> Raise(st, "stat", src_path, src_path, "io")
          [] ~Exists(f, dest_path) -> Raise(st, "stat", dest_path, dest_path, "io")
          [] o = "stat" -> Raise(st, "stat", dest_path, dest_path, "perm")
          [] IsFileIn(f, src_path) ->
               IF NeedsCopy(f[src_path], f[dest_path])
               THEN Copy2(st, src_path, dest_path, o)
               ELSE st
          [] IsDirIn(f, src_path) ->
               [st EXCEPT !.updated_list = Append(@, src_path)]
          [] OTHER -> st

\* lines 183-207: one pass of the loop over shared_items
SharedItem(st, srcdir, destdir, item, o) ==
    LET src_path == Append(srcdir, item)
        dest_path == Append(destdir, item)
        f == st.fs
    IN  CASE ~Exists(f, src_path) -> Raise(st, "stat", src_path, src_path, "io")
          [] ~Exists(f, dest_path) -> Raise(st, "stat", dest_path, dest_path, "io")
          [] o = "stat" -> Raise(st, "stat", dest_path, dest_path, "perm")
          [] IsFileIn(f, src_path) ->
               IF NeedsCopy(f[src_path], f[dest_path])
               THEN Copy2(st, src_path, dest_path, o)
               ELSE st
          [] IsDirIn(f, src_path) ->
               [st EXCEPT !.updated_list = <<src_path>> \o @]
          [] OTHER -> st

RECURSIVE DeleteLoop(_, _, _, _, _)
DeleteLoop(st, destdir, items, out, K) ==
    IF items = <<>> \/ st.raised THEN st
    ELSE DeleteLoop(DeleteItem(st, destdir, Head(items), out[Head(items)], K),
                    destdir, Tail(items), out, K)

RECURSIVE CopyLoop(_, _, _, _, _, _)
CopyLoop(st, srcdir, destdir, items, out, K) ==
    IF items = <<>> \/ st.raised THEN st
    ELSE CopyLoop(CopyItem(st, srcdir, destdir, Head(items), out[Head(items)], K),
                  srcdir, destdir, Tail(items), out, K)

RECURSIVE SharedLoop(_, _, _, _, _)
SharedLoop(st, srcdir, destdir, items, out) ==
    IF items = <<>> \/ st.raised THEN st
    ELSE SharedLoop(SharedItem(st, srcdir, destdir, Head(items), out[Head(items)]),
                    srcdir, destdir, Tail(items), out)

\* lines 143-148
src_items(f, srcdir) == ListNames(f, srcdir)
dest_items(f, destdir) == ListNames(f, destdir)
src_unique(si, di) == si \ di
dest_unique(si, di) == di \ si
shared_items(si, di) == si \cap di

\* dir_comp(src, dest, curr_list, merge) on the filesystem f with history o.
\* lst is the outcome of the two listings, si and di the names they return,
\* order the iteration order of the sets, out the outcome of each name's
\* operation, K the paths a failing tree operation got through.  The result
\* holds the filesystem, the history, updated_list, error_found, and raised
\* (an exception left dir_comp).
dir_comp(f, o, srcdir, destdir, curr_list, merge, lst, si, di, order, out, K) ==
    LET st0 == [fs |-> f, ops |-> o, updated_list |-> curr_list,
                error_found |-> FALSE, raised |-> FALSE]
    IN  IF ~IsDirIn(f, srcdir) THEN Raise(st0, "list", srcdir, srcdir, "io")
        ELSE IF ~IsDirIn(f, destdir) THEN Raise(st0, "list", destdir, destdir, "io")
        ELSE IF lst # "ok" THEN Raise(st0, "list", destdir, destdir, lst)
        ELSE
        LET st1 == IF merge THEN st0
                   ELSE DeleteLoop(st0, destdir, Restrict(order, dest_unique(si, di)), out, K)
            st2 == CopyLoop(st1, srcdir, destdir, Restrict(order, src_unique(si, di)), out, K)
            st3 == SharedLoop(st2, srcdir, destdir, Restrict(order, shared_items(si, di)), out)
        IN  IF st3.raised THEN st3
            ELSE [st3 EXCEPT !.updated_list = Remove(@, srcdir)]

\* the outcomes that make a difference for the name n of the pair
OutcomesOf(f, srcdir, destdir, merge, si, di, n) ==
    IF n \in shared_items(si, di)
    THEN (IF IsFileIn(f, Append(srcdir, n)) /\ NeedsCopy(f[Append(srcdir, n)], f[Append(destdir, n)])
          THEN Outcomes \cup {"stat"} ELSE {"ok", "stat"})
    ELSE IF n \in dest_unique(si, di) /\ merge THEN {"ok"}
    ELSE Outcomes

\* the number of failures a choice of outcomes injects
Injected(out) == Cardinality({n \in DOMAIN out : out[n] # "ok"})

\* the choices of outcomes for the names of the pair that inject at most budget failures
OutcomeMaps(f, srcdir, destdir, merge, si, di, budget) ==
    LET N == si \cup di
        allowed == [n \in N |-> OutcomesOf(f, srcdir, destdir, merge, si, di, n)]
        allOk == [n \in N |-> "ok"]
    IN  IF budget = 0 THEN {allOk}
        ELSE {out \in [N -> Outcomes \cup {"stat"}] :
                 /\ \A n \in N : out[n] \in allowed[n]
                 /\ Injected(out) <= budget}

\* the paths a failing rmtree or copytree may have got through: what a failing
\* rmtree had removed is a union of subtrees, what a failing copytree had
\* copied is closed under parents
PartialPaths(f, srcdir, destdir, merge, si, di, out) ==
    LET failing == {n \in DOMAIN out : out[n] \in {"perm", "io"}}
    IN  IF failing = {} THEN {{}}
        ELSE LET D == UNION {Below(f, Append(destdir, n)) :
                               n \in {m \in failing \cap dest_unique(si, di) : ~merge}}
                 C == UNION {Below(f, Append(srcdir, n)) :
                               n \in {m \in failing \cap src_unique(si, di) : out[m] = "io"}}
             IN  {K \in SUBSET (D \cup C) :
                    /\ \A k \in K \cap D : \A q \in D : IsPrefix(k, q) => q \in K
                    /\ \A k \in K \cap C :
                          \A i \in (Len(srcdir) + 2)..Len(k) : SubSeq(k, 1, i) \in K}

----------------------------------------------------------------------------
(* Initial states: a filesystem and a command line *)

\* /s/<sn> holds the tree t1 and /d/<dn> holds the tree t2
MakeFs(sn, dn, t1, t2) ==
    (<<"s">> :> Dir) @@ (<<"d">> :> Dir) @@
    (<<"s", sn>> :> Dir) @@ (<<"d", dn>> :> Dir) @@
    GraftAt(<<"s", sn>>, t1) @@ GraftAt(<<"d", dn>>, t2)

InitRest ==
    /\ pc = "check"
    /\ confirmed = FALSE
    /\ user_input = ""
    /\ update_list = <<>>
    /\ iter_src = <<>>
    /\ iter_dest = <<>>
    /\ INFORM_USER = FALSE
    /\ ops = {}
    /\ visited = <<>>
    /\ queued = {}
    /\ fs0 = fs
    /\ run = 1
    /\ prompts = 0
    /\ failures = 0
    /\ clean = TRUE

\* the plain command line: two same-named directories, -y given
InitPlain ==
    /\ \E tp \in TreePairs : fs = MakeFs("r", "r", tp[1], tp[2])
    /\ SOURCE_PATH = <<"s", "r">>
    /\ DEST_PATH = <<"d", "r">>
    /\ MERGE \in BOOLEAN
    /\ SKIP_CONFIRMATION = TRUE
    /\ InitRest

\* other command lines: other directory names, or paths that are files or
\* missing, paths with a "." component, the same directory twice; with and
\* without -y
InitOther ==
    /\ \E tp \in SmallTreePairs :
          \/ \E sn \in RootNames, dn \in RootNames :
                /\ fs = MakeFs(sn, dn, tp[1], tp[2])
                /\ SOURCE_PATH = <<"s", sn>>
                /\ DEST_PATH = <<"d", dn>>
          \/ /\ fs = MakeFs("r", "r", tp[1], tp[2])
             /\ SOURCE_PATH \in {<<"s", "r">>, <<"s", "r", ".">>, <<"s", "r", "a">>}
             /\ DEST_PATH \in {<<"d", "r">>, <<"d", "r", "a">>, <<"s", "r">>}
    /\ MERGE \in BOOLEAN
    /\ SKIP_CONFIRMATION \in BOOLEAN
    /\ InitRest

Init == InitPlain \/ InitOther

\* command lines on which one directory lies inside the other: the source is
\* the directory r inside the destination, or the destination is the
\* directory r inside the source
InitOverlap ==
    /\ \E tp \in SmallTreePairs :
          \/ /\ fs = (<<"d">> :> Dir) @@ (<<"d", "r">> :> Dir) @@ (<<"d", "r", "r">> :> Dir) @@
                      GraftAt(<<"d", "r", "r">>, tp[1]) @@ GraftAt(<<"d", "r">>, tp[2])
             /\ SOURCE_PATH = <<"d", "r", "r">>
             /\ DEST_PATH = <<"d", "r">>
          \/ /\ fs = (<<"s">> :> Dir) @@ (<<"s", "r">> :> Dir) @@ (<<"s", "r", "r">> :> Dir) @@
                      GraftAt(<<"s", "r">>, tp[1]) @@ GraftAt(<<"s", "r", "r">>, tp[2])
             /\ SOURCE_PATH = <<"s", "r">>
             /\ DEST_PATH = <<"s", "r", "r">>
    /\ MERGE \in BOOLEAN
    /\ SKIP_CONFIRMATION \in BOOLEAN
    /\ InitRest

----------------------------------------------------------------------------
(* __main__ *)

\* the initial checks without the test for a directory synced with itself
InitialChecks_NoSelfCheck ==
    /\ pc = "check"
    /\ pc' = IF ~IsDirIn(fs, src) THEN "fatal"
             ELSE IF ~IsDirIn(fs, dest) THEN "fatal"
             ELSE IF ~(Stem(src) = Stem(dest)) THEN "fatal"
             ELSE "confirm"
    /\ UNCHANGED <<fs, SOURCE_PATH, DEST_PATH, MERGE, SKIP_CONFIRMATION, confirmed, user_input,
                   update_list, iter_src, iter_dest, INFORM_USER, ops, visited, queued, fs0,
                   run, prompts, failures, clean>>

\* lines 225-240: the initial checks
InitialChecks ==
    /\ pc = "check"
    /\ pc' = IF ~IsDirIn(fs, src) THEN "fatal"
             ELSE IF ~IsDirIn(fs, dest) THEN "fatal"
             ELSE IF ~(Stem(src) = Stem(dest)) THEN "fatal"
             ELSE IF Resolve(src) = Resolve(dest) THEN "exit"
             ELSE "confirm"
    /\ UNCHANGED <<fs, SOURCE_PATH, DEST_PATH, MERGE, SKIP_CONFIRMATION, confirmed, user_input,
                   update_list, iter_src, iter_dest, INFORM_USER, ops, visited, queued, fs0,
                   run, prompts, failures, clean>>

\* lines 262-270: the traversal begins with the two roots
Begin ==
    /\ pc' = "traverse"
    /\ INFORM_USER' = FALSE
    /\ update_list' = <<src>>
    /\ iter_src' = src
    /\ iter_dest' = dest
    /\ queued' = {src}
    /\ UNCHANGED <<fs, SOURCE_PATH, DEST_PATH, MERGE, SKIP_CONFIRMATION, ops, visited, fs0, run,
                   failures, clean>>

\* lines 244-245 with -y: the confirmation loop is not entered
SkipConfirmation ==
    /\ pc = "confirm"
    /\ SKIP_CONFIRMATION
    /\ Begin
    /\ UNCHANGED <<prompts, confirmed, user_input>>

\* the confirmation loop taking every answer but 'n' for a confirmation
Confirm_AnyProceeds(answer) ==
    /\ pc = "confirm"
    /\ ~SKIP_CONFIRMATION
    /\ prompts < MaxPrompts
    /\ prompts' = prompts + 1
    /\ user_input' = Lower(answer)
    /\ confirmed' = (Lower(answer) # "n")
    /\ IF Lower(answer) # "n" THEN Begin
       ELSE /\ pc' = "exit"
            /\ UNCHANGED <<fs, SOURCE_PATH, DEST_PATH, MERGE, SKIP_CONFIRMATION,
                           update_list, iter_src, iter_dest, INFORM_USER, ops, visited,
                           queued, fs0, run, failures, clean>>

\* lines 245-258: one pass of the confirmation loop, the user typing answer
Confirm(answer) ==
    /\ pc = "confirm"
    /\ ~SKIP_CONFIRMATION
    /\ prompts < MaxPrompts
    /\ prompts' = prompts + 1
    /\ user_input' = Lower(answer)
    /\ confirmed' = (Lower(answer) = "y")
    /\ IF Lower(answer) = "y" THEN Begin
       ELSE /\ pc' = IF Lower(answer) = "n" THEN "exit" ELSE "confirm"
            /\ UNCHANGED <<fs, SOURCE_PATH, DEST_PATH, MERGE, SKIP_CONFIRMATION,
                           update_list, iter_src, iter_dest, INFORM_USER, ops, visited,
                           queued, fs0, run, failures, clean>>

\* lines 271-294: one pass of the traversal loop: dir_comp on the current pair,
\* then the error flag, the end test and the next pair
Traverse ==
    /\ pc = "traverse"
    /\ \E si \in {src_items(fs, iter_src)}, di \in {dest_items(fs, iter_dest)} :
       \E lst \in {"ok", "perm"} :
       \E out \in OutcomeMaps(fs, iter_src, iter_dest, MERGE, si, di,
                              IF lst = "ok" THEN MaxFailures - failures ELSE 0) :
          /\ failures + Injected(out) + (IF lst = "ok" THEN 0 ELSE 1) <= MaxFailures
          /\ failures' = failures + Injected(out) + (IF lst = "ok" THEN 0 ELSE 1)
          /\ \E order \in Orders(DOMAIN out),
                K \in PartialPaths(fs, iter_src, iter_dest, MERGE, si, di, out) :
             \E res \in {dir_comp(fs, ops, iter_src, iter_dest, update_list, MERGE,
                                  lst, si, di, order, out, K)} :
              /\ fs' = res.fs
              /\ ops' = res.ops
              /\ update_list' = res.updated_list
              /\ visited' = Append(visited, iter_src)
              /\ queued' = queued \cup {res.updated_list[i] : i \in DOMAIN res.updated_list}
              /\ IF res.raised
                 THEN /\ pc' = "crashed"
                      /\ UNCHANGED <<iter_src, iter_dest, INFORM_USER>>
                 ELSE /\ INFORM_USER' = (INFORM_USER \/ res.error_found)
                      /\ IF res.updated_list = <<>>
                         THEN /\ pc' = "done"
                              /\ UNCHANGED <<iter_src, iter_dest>>
                         ELSE /\ pc' = "traverse"
                              /\ iter_src' = res.updated_list[1]
                              /\ iter_dest' = dest \o RelPath(res.updated_list[1], src)
    /\ UNCHANGED <<SOURCE_PATH, DEST_PATH, MERGE, SKIP_CONFIRMATION, confirmed, user_input,
                   fs0, run, prompts, clean>>

\* the program is started again with the same command line
Rerun ==
    /\ pc = "done"
    /\ run < MaxRuns
    /\ run' = run + 1
    /\ pc' = "check"
    /\ confirmed' = FALSE
    /\ user_input' = ""
    /\ update_list' = <<>>
    /\ iter_src' = <<>>
    /\ iter_dest' = <<>>
    /\ INFORM_USER' = FALSE
    /\ ops' = {}
    /\ visited' = <<>>
    /\ queued' = {}
    /\ fs0' = fs
    /\ prompts' = 0
    /\ failures' = 0
    /\ clean' = (clean /\ ~INFORM_USER)
    /\ UNCHANGED <<fs, SOURCE_PATH, DEST_PATH, MERGE, SKIP_CONFIRMATION>>

Next ==
    \/ InitialChecks
    \/ SkipConfirmation
    \/ \E answer \in Answers : Confirm(answer)
    \/ Traverse

Spec == Init /\ [][Next]_vars

\* the program run on directories of which one lies inside the other
SpecOverlap == InitOverlap /\ [][Next]_vars

\* the program run up to MaxRuns times in succession
NextTwice == Next \/ Rerun
SpecTwice == Init /\ [][NextTwice]_vars

TypeOK ==
    /\ pc \in {"check", "confirm", "traverse", "done", "exit", "fatal", "crashed"}
    /\ MERGE \in BOOLEAN
    /\ INFORM_USER \in BOOLEAN
    /\ confirmed \in BOOLEAN
    /\ user_input \in {""} \cup {Lower(a) : a \in Answers}
    /\ run \in 1..MaxRuns
    /\ \A p \in DOMAIN fs : fs[p].type \in {"file", "dir"}

----------------------------------------------------------------------------
(* Vocabulary of the properties *)

\* the paths below the source root and below the destination root, relative
SrcRel(f) == {Suffix(src, p) : p \in Below(f, src)}
DstRel(f) == {Suffix(dest, p) : p \in Below(f, dest)}

\* the relative paths that exist only in the destination tree
DestOnly(f) == DstRel(f) \ SrcRel(f)

CopyOps == {"copy2", "copytree"}
DeleteOps == {"unlink", "rmtree"}

\* no filesystem operation of the run has failed
NoFailure == \A o \in ops : o.res = "ok"

\* the destination tree matches the source tree: same names at every depth,
\* same types, same sizes of files
TreesMatch(f) ==
    /\ SrcRel(f) = DstRel(f)
    /\ \A r \in SrcRel(f) :
          /\ f[src \o r].type = f[dest \o r].type
          /\ f[src \o r].type = "file" => f[src \o r].size = f[dest \o r].size

\* a name that is a file on one side and a directory on the other
Mismatch(f) ==
    \E r \in SrcRel(f) \cap DstRel(f) : f[src \o r].type # f[dest \o r].type

----------------------------------------------------------------------------
(* Properties *)

\* C1: a run with merge=false that finishes with the error flag unset leaves
\* the destination tree matching the source tree (names, types, file sizes at
\* every depth), also when a shared name is a file on one side and a
\* directory on the other.
C1_DestMatchesSource ==
    (pc = "done" /\ ~MERGE /\ ~INFORM_USER) => TreesMatch(fs)

\* C2: completeness: after a run in which no filesystem operation fails, every
\* file of the source tree whose path was absent from the destination tree
\* before the run exists in the destination at the same relative path with
\* the same size, with and without merge.
C2_Completeness ==
    (pc = "done" /\ NoFailure) =>
        \A r \in SrcRel(fs0) \ DstRel(fs0) :
            fs0[src \o r].type = "file" =>
                /\ IsFileIn(fs, dest \o r)
                /\ fs[dest \o r].size = fs0[src \o r].size

\* a finished run copied a file that lay in a source-only directory and a
\* file that lay in a shared directory
C2_Witness ==
    /\ pc = "done" /\ NoFailure
    /\ \E r \in SrcRel(fs0) \ DstRel(fs0) :
          /\ Len(r) = 2 /\ fs0[src \o r].type = "file"
          /\ SubSeq(r, 1, 1) \in DstRel(fs0)
          /\ IsFileIn(fs, dest \o r)

\* C3: deletion: with merge=false, after a run in which no filesystem
\* operation fails no entry exists any more whose path existed only in the
\* destination tree before the run, at any depth, including the entries
\* inside a destination directory whose name is a file in the source.
C3_Deletion ==
    (pc = "done" /\ ~MERGE /\ NoFailure) =>
        \A r \in DestOnly(fs0) : ~Exists(fs, dest \o r)

\* C4: preservation: with merge=true every entry whose path existed only in
\* the destination tree before the run still exists and is unchanged, and no
\* operation of the run deleted or overwrote it.
C4_Preservation ==
    (MERGE /\ pc \in {"traverse", "done", "crashed"}) =>
        \A r \in DestOnly(fs0) :
            /\ Exists(fs, dest \o r)
            /\ fs[dest \o r] = fs0[dest \o r]
            /\ \A o \in ops : o.op \in CopyOps \cup DeleteOps => ~IsPrefix(o.target, dest \o r)

\* C5: idempotence: a run that follows a run which completed with the error
\* flag unset, with the same merge mode and no change in between, performs
\* no copy and no delete.
C5_Idempotence ==
    (run > 1 /\ clean) => \A o \in ops : o.op \notin CopyOps \cup DeleteOps

\* the relative paths that are regular files in both trees of f
SharedFiles(f) ==
    {r \in SrcRel(f) \cap DstRel(f) : f[src \o r].type = "file" /\ f[dest \o r].type = "file"}

\* the operations of the run that failed
Failed == {o \in ops : o.res # "ok"}

\* C6: overwrite-on-change: in a run that reaches its end, for every name that
\* is a regular file in both trees and whose source size differs from the
\* destination size, or whose source modification time is strictly newer, the
\* run copies source over destination, and after a successful copy the
\* destination entry has the source's size and modification time.
C6_OverwriteOnChange ==
    pc = "done" =>
        \A r \in SharedFiles(fs0) :
            (\/ fs0[src \o r].size # fs0[dest \o r].size
             \/ fs0[src \o r].mtime > fs0[dest \o r].mtime) =>
                \E o \in ops :
                    /\ o.op = "copy2" /\ o.target = dest \o r
                    /\ o.res = "ok" => /\ IsFileIn(fs, dest \o r)
                                       /\ fs[dest \o r].size = fs0[src \o r].size
                                       /\ fs[dest \o r].mtime = fs0[src \o r].mtime

\* a finished run overwrote a file, one level below the roots, that had the
\* size of its source and was older
C6_Witness ==
    /\ pc = "done"
    /\ \E r \in SharedFiles(fs0) :
          /\ Len(r) = 2
          /\ fs0[src \o r].size = fs0[dest \o r].size
          /\ fs0[src \o r].mtime > fs0[dest \o r].mtime
          /\ fs[dest \o r] = fs0[src \o r]
          /\ \E o \in ops : o.op = "copy2" /\ o.target = dest \o r /\ o.res = "ok"

\* C7: no-clobber-when-equal: for every name that is a regular file in both
\* trees with equal sizes and a destination modification time greater than or
\* equal to the source's, no operation of the run writes to, replaces or
\* deletes the destination file: it stays as it was and no copy or delete is
\* aimed at it or at a directory above it.
C7_NoClobberWhenEqual ==
    \A r \in SharedFiles(fs0) :
        (/\ fs0[src \o r].size = fs0[dest \o r].size
         /\ fs0[dest \o r].mtime >= fs0[src \o r].mtime) =>
            /\ Exists(fs, dest \o r)
            /\ fs[dest \o r] = fs0[dest \o r]
            /\ \A o \in ops : o.op \in CopyOps \cup DeleteOps => ~IsPrefix(o.target, dest \o r)

\* a finished run that copied or deleted another entry left alone a file that
\* had the size and the modification time of its source
C7_Witness ==
    /\ pc = "done"
    /\ \E o \in ops : o.op \in CopyOps \cup DeleteOps /\ o.res = "ok"
    /\ \E r \in SharedFiles(fs0) :
          /\ fs0[src \o r] = fs0[dest \o r]
          /\ fs[dest \o r] = fs0[dest \o r]

\* the directory pairs of the run: the relative paths that are directories in
\* both trees, the roots among them
SharedDirs(f) ==
    {<<>>} \cup {r \in SrcRel(f) \cap DstRel(f) :
                    f[src \o r].type = "dir" /\ f[dest \o r].type = "dir"}

\* the operation that the level of the pair r owes the name n has been carried out
Processed(r, n) ==
    LET sp == src \o r \o <<n>>
        dp == dest \o r \o <<n>>
    IN  CASE ~Exists(fs0, sp) ->
               MERGE \/ \E o \in ops : o.op \in DeleteOps /\ o.path = dp
          [] ~Exists(fs0, dp) ->
               \E o \in ops : o.op \in CopyOps /\ o.path = dp
          [] fs0[sp].type = "dir" ->
               \E i \in DOMAIN visited : visited[i] = sp
          [] OTHER ->
               (\/ fs0[sp].size # fs0[dp].size
                \/ fs0[sp].mtime > fs0[dp].mtime) =>
                    \E o \in ops : o.op = "copy2" /\ o.path = dp

\* C8: partial-failure tolerance: when copy or delete operations fail with a
\* permission error and nothing else fails, the run is not aborted, and when
\* it ends every entry of every level has been processed (each delete, each
\* copy, each comparison of a shared file, each directory of the worklist)
\* and the run-wide error flag is set.
C8_PartialFailureTolerance ==
    (/\ Failed # {}
     /\ \A o \in Failed : o.res = "perm" /\ o.op \in CopyOps \cup DeleteOps) =>
        /\ pc # "crashed"
        /\ pc = "done" =>
              /\ INFORM_USER
              /\ \A d \in queued : \E i \in DOMAIN visited : visited[i] = d
              /\ \A r \in SharedDirs(fs0) :
                    \A n \in ListNames(fs0, src \o r) \cup ListNames(fs0, dest \o r) :
                        Processed(r, n)

\* a run ended with the flag set after a copy or delete failed with a
\* permission error at a level where another copy or delete succeeded, and
\* visited a directory of the worklist after that level
C8_Witness ==
    /\ pc = "done" /\ INFORM_USER
    /\ \E o \in ops :
          /\ o.res = "perm" /\ o.op \in CopyOps \cup DeleteOps
          /\ \E q \in ops :
                /\ q.res = "ok" /\ q.op \in CopyOps \cup DeleteOps
                /\ Len(q.path) = Len(o.path) /\ q.path # o.path
                /\ SubSeq(q.path, 1, Len(o.path) - 1) = SubSeq(o.path, 1, Len(o.path) - 1)
          /\ \E i, j \in DOMAIN visited :
                /\ i < j
                /\ dest \o Suffix(src, visited[i]) = SubSeq(o.path, 1, Len(o.path) - 1)

\* C9: every error raised inside dir_comp, a permission denial or another I/O
\* failure, during listing, stat, copy or delete, is caught: it never aborts
\* the run, and a run in which an operation failed ends with the run-wide
\* error flag set and every directory of the worklist visited.
C9_EveryErrorCaught ==
    /\ pc # "crashed"
    /\ (pc = "done" /\ Failed # {}) =>
          /\ INFORM_USER
          /\ \A d \in queued : \E i \in DOMAIN visited : visited[i] = d

\* C10: validation: whenever the source or the destination is not an existing
\* directory, or their final path components differ, the run is aborted with
\* a fatal error before any filesystem operation and before the traversal.
C10_Validation ==
    (/\ pc # "check"
     /\ \/ ~IsDirIn(fs0, src)
        \/ ~IsDirIn(fs0, dest)
        \/ src[Len(src)] # dest[Len(dest)]) =>
        /\ pc = "fatal"
        /\ fs = fs0
        /\ ops = {}
        /\ visited = <<>>

\* C11: self-sync no-op: when source and destination resolve to the same
\* directory, the run exits cleanly (no error raised), the traversal never
\* starts, and no copy or delete operation is performed.
C11_SelfSyncNoOp ==
    (pc # "check" /\ src = dest /\ IsDirIn(fs0, src)) =>
        /\ pc = "exit"
        /\ fs = fs0
        /\ ops = {}
        /\ visited = <<>>
        /\ update_list = <<>>

\* the run has exited on a source and a destination that are written
\* differently and resolve to the same directory
C11_Witness ==
    /\ pc = "exit"
    /\ SOURCE_PATH # DEST_PATH
    /\ src = dest
    /\ IsDirIn(fs, src)
    /\ prompts = 0

\* C12: confirmation gate: the traversal starts and a copy or delete happens
\* only after the user has confirmed the direction with 'y' or when
\* skip-confirmation is set; after the answer 'n' the run has ended with the
\* filesystem untouched; after any other answer the prompt is shown again and
\* the traversal has not started.
C12_ConfirmationGate ==
    /\ (pc \in {"traverse", "done", "crashed"} \/ ops # {} \/ fs # fs0 \/ visited # <<>>) =>
          (SKIP_CONFIRMATION \/ (confirmed /\ user_input = "y"))
    /\ user_input = "n" =>
          (pc = "exit" /\ fs = fs0 /\ ops = {} /\ visited = <<>>)
    /\ user_input \notin {"", "y", "n"} =>
          (pc = "confirm" /\ ~confirmed /\ fs = fs0 /\ ops = {} /\ visited = <<>>)

\* a run without skip-confirmation was asked twice, confirmed at the second
\* prompt, and then copied or deleted something
C12_Witness ==
    /\ ~SKIP_CONFIRMATION
    /\ prompts = 2
    /\ confirmed
    /\ pc = "done"
    /\ \E o \in ops : o.op \in CopyOps \cup DeleteOps /\ o.res = "ok"

\* C13: termination: a traversal that no failing operation disturbs is never
\* aborted on its way to Done, also when a shared name is a directory in the
\* source and a file in the destination; the directories already processed
\* are no longer on the worklist, and the traversal is at Done exactly when
\* the worklist is empty.
C13_Termination ==
    /\ pc = "crashed" => failures > 0
    /\ pc = "done" => update_list = <<>>
    /\ pc = "traverse" =>
          /\ update_list # <<>>
          /\ \A i \in DOMAIN visited, j \in DOMAIN update_list : update_list[j] # visited[i]

\* C14: pairing: whenever a directory has been taken from the worklist for
\* processing, the destination directory computed for it lies at the same
\* relative path below the destination root as the source directory below
\* the source root, and both exist as directories at that moment.
C14_Pairing ==
    pc = "traverse" =>
        /\ IsPrefix(src, iter_src)
        /\ IsPrefix(dest, iter_dest)
        /\ Suffix(src, iter_src) = Suffix(dest, iter_dest)
        /\ IsDirIn(fs, iter_src)
        /\ IsDirIn(fs, iter_dest)

\* a sequence without repeated elements
NoRepeat(seq) == \A i, j \in DOMAIN seq : seq[i] = seq[j] => i = j

\* the relative paths of the directories that exist only in the source tree
\* and lie directly in a directory of both trees
SourceOnlyDirs(f) ==
    {r \in SrcRel(f) \ DstRel(f) :
        /\ f[src \o r].type = "dir"
        /\ SubSeq(r, 1, Len(r) - 1) \in SharedDirs(f)}

\* C15: visitation: the worklist never holds the same directory twice and no
\* directory is processed a second time; a directory that exists only in the
\* source is never placed on the worklist; and when the run ends every
\* directory that exists at the same relative path in both trees has been
\* reconciled exactly once and every directory that exists only in the
\* source has been handed to copytree as a whole.
C15_Visitation ==
    /\ NoRepeat(update_list)
    /\ NoRepeat(visited)
    /\ \A d \in queued : /\ IsPrefix(src, d)
                         /\ Exists(fs0, dest \o Suffix(src, d))
    /\ pc = "done" =>
          /\ \A r \in SharedDirs(fs0) :
                Cardinality({i \in DOMAIN visited : visited[i] = src \o r}) = 1
          /\ \A r \in SourceOnlyDirs(fs0) :
                /\ \E o \in ops : o.op = "copytree" /\ o.path = dest \o r
                /\ \A i \in DOMAIN visited : ~IsPrefix(src \o r, visited[i])

\* a finished run reconciled a pair of directories two levels below the
\* roots and copied a directory that existed only in the source
C15_Witness ==
    /\ pc = "done"
    /\ \E r \in SharedDirs(fs0) : Len(r) = 2 /\ \E i \in DOMAIN visited : visited[i] = src \o r
    /\ \E r \in SourceOnlyDirs(fs0) :
          \E o \in ops : o.op = "copytree" /\ o.path = dest \o r /\ o.res = "ok"

\* C16: error flag: the run-wide error flag is unset before the traversal
\* starts, a step never clears it once it is set, and when the traversal
\* reaches Done it is set if and only if a copy or delete operation of the run
\* failed.
C16_ErrorFlag ==
    [][/\ pc \in {"check", "confirm"} => ~INFORM_USER
       /\ INFORM_USER => INFORM_USER'
       /\ pc' = "done" =>
             (INFORM_USER' <=> \E o \in ops' : o.op \in CopyOps \cup DeleteOps /\ o.res # "ok")]_vars

\* a run ended with the flag set by a failure at the top level and kept
\* through the processing of a directory below
C16_Witness ==
    /\ pc = "done" /\ INFORM_USER
    /\ Len(visited) >= 2
    /\ \E o \in ops : o.res = "perm" /\ Len(o.path) = Len(dest) + 1
    /\ \A o \in ops : o.res # "ok" => Len(o.path) = Len(dest) + 1

\* C17: worklist order: the directory processed at each step is the front
\* entry of the worklist; a step that returns leaves the entries that were
\* pending behind it in place and puts the shared subdirectories it found in
\* front of them; so the directories below a directory are all processed
\* before any directory that was pending when it was processed.
C17_WorklistOrder ==
    [][pc = "traverse" =>
          /\ update_list # <<>>
          /\ iter_src = update_list[1]
          /\ pc' # "crashed" =>
                \E k \in 0..Len(update_list') :
                    /\ SubSeq(update_list', k + 1, Len(update_list')) = Tail(update_list)
                    /\ \A i \in 1..k :
                          /\ Len(update_list'[i]) = Len(iter_src) + 1
                          /\ IsPrefix(iter_src, update_list'[i])
          /\ \A i, j, k \in DOMAIN visited' :
                (i < j /\ j < k /\ IsPrefix(visited'[i], visited'[k])) =>
                    IsPrefix(visited'[i], visited'[j])]_vars

\* a finished run processed a directory, then a directory inside it, and only
\* then a sibling of the first that had been found together with it
C17_Witness ==
    /\ pc = "done"
    /\ \E i \in DOMAIN visited :
          /\ i + 2 \in DOMAIN visited
          /\ Len(visited[i]) = Len(src) + 1
          /\ Len(visited[i + 1]) = Len(src) + 2
          /\ IsPrefix(visited[i], visited[i + 1])
          /\ Len(visited[i + 2]) = Len(src) + 1

\* the copy and delete operations of the run
Mutations == {o \in ops : o.op \in CopyOps \cup DeleteOps}

\* C18: no retry: within one run no destination path is the target of more
\* than one copy or delete operation; in particular an operation that failed
\* is not attempted again.
C18_NoRetry ==
    \A o1, o2 \in Mutations :
        (o1.target = o2.target \/ o1.path = o2.path) => o1 = o2

\* a run ended after a copy or delete had failed with a permission error and
\* further directories had been processed and further operations carried out
C18_Witness ==
    /\ pc = "done"
    /\ \E o \in Mutations :
          /\ o.res = "perm"
          /\ \E i \in DOMAIN visited : i > 1 /\ Len(visited[i]) >= Len(o.path)
    /\ Cardinality(Mutations) >= 2

\* C19: source is read-only: for every accepted pair of distinct directories,
\* also when one lies inside the other, the source tree is at every moment of
\* the run what it was before the run, and no copy or delete operation is
\* aimed at a path of the source tree.
C19_SourceReadOnly ==
    /\ \A p \in DOMAIN fs0 : IsPrefix(src, p) => (Exists(fs, p) /\ fs[p] = fs0[p])
    /\ \A p \in DOMAIN fs : IsPrefix(src, p) => Exists(fs0, p)
    /\ \A o \in Mutations : ~IsPrefix(src, o.target)

====
